---- MODULE Spec2Model ----
(***************************************************************************)
(* Model of src/main.py: AutonomieNotifier, a poller that fetches iCal      *)
(* feeds, dispatches one Discord notification per current "autonomie"      *)
(* event and keeps a ledger of dispatched keys in sent_events.json.        *)
(*                                                                         *)
(* Time is counted in whole hours of the operating zone's wall clock.      *)
(* The 5-minute sleep of run_continuous is below that resolution: the      *)
(* process stays "idle" between two cycles while the clock may move on.    *)
(***************************************************************************)
EXTENDS Integers, Sequences, FiniteSets, TLC

VARIABLES
    clock,              \* wall clock, hours, operating zone
    pc,                 \* position of the process
    file,               \* sent_events.json on disk
    sent_events,        \* self.sent_events
    src,                \* index in self.ical_urls of the source being handled
    ent,                \* index of the next component of calendar.walk(); 0: not fetched
    notifications_sent, \* local of check_autonomie_events
    loaded,             \* history: the set load_sent_events returned to __init__
    dropped,            \* history: the keys load_sent_events pruned
    sends,              \* history: send_discord_message calls per key, this process
    failed,             \* history: keys whose send_discord_message raised inside
    seen,               \* history: times a matching current entry was met, per key
    sentFor,            \* history: <<source, component>> pairs dispatched, this process
    covered,            \* history: keys a completed write held less than a day before the load
    cycleKeys,          \* history: keys dispatched in the cycle in progress / last cycle
    visited,            \* history: sources the cycle has reached
    fetchFailed,        \* history: sources whose fetch raised in the cycle
    sentSrc,            \* history: sources a dispatch of the cycle came from
    saves,              \* history: save_sent_events calls of the cycle
    flushedAt,          \* history: per key, clock of the last completed write holding it
    exit,               \* history: how the last process ended
    env,                \* the environment of the process: ICAL_URL, DISCORD_WEBHOOK_URL
    healthy,            \* history: the load parsed the file and no write has failed since
    probe               \* a call of is_event_current or create_event_id on its own

vars == <<clock, pc, file, sent_events, src, ent, notifications_sent, loaded,
          dropped, sends, failed, seen, sentFor, covered, cycleKeys,
          visited, fetchFailed, sentSrc, saves, flushedAt, exit, env, healthy, probe>>

(***************************************************************************)
(* Bounds of the model and constants of the program.                       *)
(***************************************************************************)
MaxClock == 26          \* the clock stops here
SeenCap == 2            \* the history counters saturate here
MaxDay == 2             \* the last day on which a probed event starts or ends
MaxSeed == 1            \* the hash seeds of the interpreters, 0..MaxSeed
Day == 24               \* timedelta(days=1), in hours
OneHour == 1            \* timedelta(hours=1), in hours
TzOffset == 1           \* utcoffset of self.tz (Europe/Paris, standard time)
interval_minutes == 5   \* run_continuous(interval_minutes=5)
BackoffSeconds == 60    \* time.sleep(60) of the handler of run_continuous

Min(a, b) == IF a <= b THEN a ELSE b

(***************************************************************************)
(* Strings the code inspects are sequences of characters.                  *)
(***************************************************************************)
Upper == <<"A", "U", "T", "O", "N", "M", "I", "E", "C", "R", "S", "P">>
Lower == <<"a", "u", "t", "o", "n", "m", "i", "e", "c", "r", "s", "p">>

\* str.lower() of one character
LowerChar(c) ==
    IF \E i \in 1..Len(Upper) : Upper[i] = c
    THEN Lower[CHOOSE i \in 1..Len(Upper) : Upper[i] = c]
    ELSE c

\* str.lower()
ToLower(s) == [i \in 1..Len(s) |-> LowerChar(s[i])]

\* needle in hay
Contains(hay, needle) ==
    \E i \in 0..(Len(hay) - Len(needle)) :
        \A j \in 1..Len(needle) : hay[i + j] = needle[j]

\* str.strip()
RECURSIVE Strip(_)
Strip(s) ==
    IF s = <<>> THEN s
    ELSE IF Head(s) = " " THEN Strip(Tail(s))
    ELSE IF s[Len(s)] = " " THEN Strip(SubSeq(s, 1, Len(s) - 1))
    ELSE s

\* str(): the characters joined into one string
RECURSIVE Str(_)
Str(s) == IF s = <<>> THEN "" ELSE Head(s) \o Str(Tail(s))

Keyword == <<"a", "u", "t", "o", "n", "o", "m", "i", "e">>

\* line 213-214: "autonomie" in str(summary).lower()
IsCandidate(summary) == Contains(ToLower(summary), Keyword)

(***************************************************************************)
(* Calendar time values: a date, a naive datetime, a zone-aware datetime,  *)
(* or no property at all (event.get returns None).                         *)
(***************************************************************************)
None == [kind |-> "none"]
Date(d) == [kind |-> "date", day |-> d]
Naive(t) == [kind |-> "naive", t |-> t]
Aware(t, off) == [kind |-> "aware", t |-> t, off |-> off]

\* the instant of an aware datetime, hours UTC
Utc(dt) == dt.t - dt.off

\* tz.localize(naive)
Localize(t) == Aware(t, TzOffset)

\* aware.astimezone(self.tz)
AsTimezone(dt) == Aware(Utc(dt) + TzOffset, TzOffset)

\* datetime.combine(date, datetime.min.time())
DayStart(d) == d * Day

\* datetime.combine(date, datetime.max.time()): the last instant of the day
\* that a clock counting whole hours can show
DayEnd(d) == d * Day + (Day - 1)

\* datetime.now(self.tz)
NowTz(t) == Aware(t, TzOffset)

(***************************************************************************)
(* is_event_current, lines 98-147.                                         *)
(***************************************************************************)
\* start_dt + timedelta(hours=1): a date plus one hour is the same date
PlusOneHour(dt) ==
    CASE dt.kind = "date" -> dt
      [] dt.kind = "naive" -> Naive(dt.t + OneHour)
      [] dt.kind = "aware" -> Aware(dt.t + OneHour, dt.off)

\* lines 111-115 and 124-128: a datetime brought to the operating zone
ToZone(dt) == IF dt.kind = "aware" THEN AsTimezone(dt) ELSE Localize(dt.t)

\* lines 108-122: start_time
StartTime(event) ==
    IF event.dtstart.kind = "date"
    THEN Localize(DayStart(event.dtstart.day))
    ELSE ToZone(event.dtstart)

\* line 109 without its default: an absent end taken as the start itself
EndDtStartOnly(event) ==
    IF event.dtstart.kind = "date"
    THEN Localize(DayEnd(event.dtstart.day))
    ELSE IF event.dtend.kind # "none" THEN event.dtend
    ELSE event.dtstart

\* lines 109 and 120-122: end_dt; a date-only start replaces whatever dtend said
EndDt(event) ==
    IF event.dtstart.kind = "date"
    THEN Localize(DayEnd(event.dtstart.day))
    ELSE IF event.dtend.kind # "none" THEN event.dtend
    ELSE PlusOneHour(event.dtstart)

\* lines 124-132: end_time
EndTime(event) ==
    LET end_dt == EndDt(event) IN
    IF end_dt.kind = "date" THEN Localize(DayEnd(end_dt.day)) ELSE ToZone(end_dt)

\* is_event_current without the test of lines 105-106
IsEventCurrentNoStartOk(event, t) ==
    IF event.dtstart.kind = "none" THEN TRUE
    ELSE /\ Utc(StartTime(event)) <= Utc(NowTz(t))
         /\ Utc(NowTz(t)) <= Utc(EndTime(event))

IsEventCurrent(event, t) ==
    IF event.dtstart.kind = "none" THEN FALSE
    ELSE /\ Utc(StartTime(event)) <= Utc(NowTz(t))
         /\ Utc(NowTz(t)) <= Utc(EndTime(event))

(***************************************************************************)
(* create_event_id, lines 149-166.                                         *)
(***************************************************************************)
\* str(dtstart.dt)
StrDt(dt) ==
    CASE dt.kind = "date" -> "D" \o ToString(dt.day)
      [] dt.kind = "naive" ->
            "D" \o ToString(dt.t \div Day) \o " " \o ToString(dt.t % Day) \o "h"
      [] dt.kind = "aware" ->
            "D" \o ToString(dt.t \div Day) \o " " \o ToString(dt.t % Day) \o "h+"
                \o ToString(dt.off)

\* h stands for hash(str(event))
CreateEventId(event, calendar_name, h) ==
    IF event.uid # "" THEN calendar_name \o "_" \o event.uid
    ELSE IF event.dtstart.kind # "none"
    THEN calendar_name \o "_" \o Str(event.summary) \o "_" \o StrDt(event.dtstart)
    ELSE calendar_name \o "_" \o Str(event.summary) \o "_" \o ToString(h)

(***************************************************************************)
(* The configuration and the feeds the sources serve.                      *)
(***************************************************************************)
Component(name, summary, uid, dtstart, dtend) ==
    [name |-> name, summary |-> summary, uid |-> uid,
     dtstart |-> dtstart, dtend |-> dtend]

\* an environment variable is unset ({}) or holds one string ({s})
Unset == {}
Set(s) == {s}

\* os.getenv(name, default)
GetEnv(value, default) == IF value = Unset THEN default ELSE CHOOSE s \in value : TRUE

\* str.split(","): "".split(",") is [""]
RECURSIVE SplitComma(_)
SplitComma(s) ==
    IF \A i \in 1..Len(s) : s[i] # ","
    THEN <<s>>
    ELSE LET i == CHOOSE j \in 1..Len(s) :
                      s[j] = "," /\ \A h \in 1..(j - 1) : s[h] # ","
         IN <<SubSeq(s, 1, i - 1)>> \o SplitComma(SubSeq(s, i + 1, Len(s)))

\* the deployment: ICAL_URL="a, , b", two feeds and a blank between commas
Configured ==
    [ICAL_URL |-> Set(<<"a", ",", " ", ",", " ", "b">>),
     DISCORD_WEBHOOK_URL |-> Set(<<"w">>)]

\* the environments a process is started in
Envs ==
    {[ICAL_URL |-> i, DISCORD_WEBHOOK_URL |-> w] :
        i \in {Unset, Set(<<>>), Configured.ICAL_URL},
        w \in {Unset, Set(<<>>), Configured.DISCORD_WEBHOOK_URL}}

\* the environments of the runs with faults: one feed and a blank after the comma
FaultEnvs ==
    {[ICAL_URL |-> Set(<<"b", ",", " ">>), DISCORD_WEBHOOK_URL |-> w] :
        w \in {Unset, Configured.DISCORD_WEBHOOK_URL}}

\* line 22: os.getenv("ICAL_URL", "").split(",") in environment e
SelfIcalUrls(e) == SplitComma(GetEnv(e.ICAL_URL, <<>>))

\* line 23: os.getenv("DISCORD_WEBHOOK_URL"), None when unset
discord_webhook == env.DISCORD_WEBHOOK_URL

\* not x, for a string or None
Falsy(value) == value = Unset \/ value = Set(<<>>)

\* what Calendar.from_ical gives for the feed at each address; feed a holds
\* the same event (one uid) twice, feed b an event with neither uid nor start
\* and a date-only event of two days
CalendarA ==
    [calname |-> {"L3"},
     components |-> <<
        Component("VCALENDAR", <<>>, "", None, None),
        Component("VEVENT", <<"A", "u", "t", "o", "n", "o", "m", "i", "e">>, "u1",
                  Aware(0, 0), Aware(30, 0)),
        Component("VEVENT", <<"C", "o", "u", "r", "s">>, "u2", Naive(0), Naive(40)),
        Component("VEVENT", <<"A", "u", "t", "o", "n", "o", "m", "i", "e">>, "u1",
                  Aware(0, 0), Aware(30, 0)) >>]

CalendarB ==
    [calname |-> {},
     components |-> <<
        Component("VEVENT", <<"T", "P", " ", "A", "U", "T", "O", "N", "O", "M", "I", "E">>,
                  "", Naive(2), None),
        Component("VEVENT", <<"a", "u", "t", "o", "n", "o", "m", "i", "e">>, "",
                  None, None),
        Component("VEVENT", <<"A", "u", "t", "o", "n", "o", "m", "i", "e">>, "",
                  Date(1), Date(2)) >>]

Feed(url) == IF url = <<"a">> THEN CalendarA ELSE CalendarB

\* lines 92-96
GetCalendarName(calendar) ==
    IF calendar.calname = {} THEN "Agenda" ELSE CHOOSE n \in calendar.calname : TRUE

\* line 200: the sources of a list the loop does not skip
NonBlankOf(urls) == {i \in 1..Len(urls) : Strip(urls[i]) # <<>>}

\* lines 204 and 209: the components the walk of a list of sources meets
EntriesOf(urls) ==
    UNION {{<<i, j>> : j \in 1..Len(Feed(Strip(urls[i])).components)} :
              i \in NonBlankOf(urls)}

\* lines 206 and 224: the key of each component the walk meets; the hash of
\* the last branches is taken as 0
KeysOf(urls) ==
    [p \in EntriesOf(urls) |->
        LET calendar == Feed(Strip(urls[p[1]]))
        IN CreateEventId(calendar.components[p[2]], GetCalendarName(calendar), 0)]

\* per environment: self.ical_urls and what its sources hold
Deployment ==
    [e \in Envs \cup FaultEnvs |->
        LET urls == SelfIcalUrls(e)
        IN [ical_urls |-> urls,
            NonBlank |-> NonBlankOf(urls),
            Entries |-> EntriesOf(urls),
            KeyAt |-> KeysOf(urls),
            Keys |-> {KeysOf(urls)[p] : p \in EntriesOf(urls)}]]

\* self.ical_urls
ical_urls == Deployment[env].ical_urls

\* line 26: not self.ical_urls or not self.discord_webhook
ConfigMissing == Len(ical_urls) = 0 \/ Falsy(discord_webhook)

Sources == 1..Len(ical_urls)

NonBlank == Deployment[env].NonBlank

CalendarOf(i) == Feed(Strip(ical_urls[i]))

ComponentAt(i, j) == CalendarOf(i).components[j]

KeyAt(i, j) == Deployment[env].KeyAt[<<i, j>>]

Entries == Deployment[env].Entries

Keys == Deployment[env].Keys

(***************************************************************************)
(* The ledger, lines 46-75.                                                *)
(***************************************************************************)
EmptyMap == [k \in {} |-> ""]

Absent == [state |-> "absent", data |-> EmptyMap]
Truncated == [state |-> "truncated", data |-> EmptyMap]
Json(data) == [state |-> "json", data |-> data]

\* datetime.isoformat()
IsoFormat(t) == ToString(t \div Day) \o "T" \o ToString(t % Day)

\* datetime.fromisoformat(); -1 stands for ValueError
FromIso(s) ==
    IF \E t \in 0..MaxClock : IsoFormat(t) = s
    THEN CHOOSE t \in 0..MaxClock : IsoFormat(t) = s
    ELSE -1

\* save_sent_events writing str(hours) where load expects isoformat
SaveDataPlainNumber(events, t) == [k \in events |-> ToString(t)]

\* line 71: the mapping save_sent_events dumps
SaveData(events, t) == [k \in events |-> IsoFormat(t)]

\* the comparison of line 56 turned round
FreshReversed(timestamp, t) == FromIso(timestamp) < t - Day

\* line 56: the entries load_sent_events keeps
Fresh(timestamp, t) == FromIso(timestamp) > t - Day

\* load_sent_events without its filter
CleanedDataKeepsAll(data, t) == DOMAIN data

\* lines 53-57
CleanedData(data, t) == {k \in DOMAIN data : Fresh(data[k], t)}

\* load_sent_events passing over the entries it cannot parse
LoadSentEventsSkipsBad(f, t) ==
    IF f.state # "json" THEN [events |-> {}, rewrite |-> FALSE]
    ELSE [events |-> {k \in DOMAIN f.data : FromIso(f.data[k]) # -1 /\ Fresh(f.data[k], t)},
          rewrite |-> FALSE]

\* lines 47-67: what load_sent_events returns, and whether it rewrites the file
LoadSentEvents(f, t) ==
    IF f.state = "absent" THEN [events |-> {}, rewrite |-> FALSE]
    ELSE IF f.state = "truncated" THEN [events |-> {}, rewrite |-> FALSE]
    ELSE IF \E k \in DOMAIN f.data : FromIso(f.data[k]) = -1
    THEN [events |-> {}, rewrite |-> FALSE]
    ELSE [events |-> CleanedData(f.data, t),
          rewrite |-> Cardinality(CleanedData(f.data, t)) # Cardinality(DOMAIN f.data)]

FileKeys(f) == DOMAIN f.data

\* lines 50-57 run without raising: the file is absent, or json.load and every
\* fromisoformat succeed
Parses(f) ==
    \/ f.state = "absent"
    \/ f.state = "json" /\ \A k \in DOMAIN f.data : FromIso(f.data[k]) # -1

(***************************************************************************)
(* The state machine.                                                      *)
(*   down       no process                                                 *)
(*   load_save  __init__, inside the save_sent_events that load calls,     *)
(*              the file opened for writing                                *)
(*   ready      __init__ returned, run_continuous about to poll            *)
(*   cycle      inside the loops of check_autonomie_events                 *)
(*   flush      inside the save_sent_events of line 253, the file opened   *)
(*   idle       time.sleep of line 268                                     *)
(*   backoff    time.sleep of line 276                                     *)
(***************************************************************************)
NoCounts == [k \in Keys |-> 0]
NeverFlushed == [k \in Keys |-> -1]

\* no process yet
Boot ==
    /\ clock = 0
    /\ pc = "down"
    /\ sent_events = {}
    /\ src = 0
    /\ ent = 0
    /\ notifications_sent = 0
    /\ loaded = {}
    /\ dropped = {}
    /\ sends = NoCounts
    /\ failed = {}
    /\ seen = NoCounts
    /\ sentFor = {}
    /\ covered = {}
    /\ cycleKeys = {}
    /\ visited = {}
    /\ fetchFailed = {}
    /\ sentSrc = {}
    /\ saves = 0
    /\ flushedAt = NeverFlushed
    /\ exit = "none"
    /\ healthy = TRUE

\* no function is called on its own
Unprobed == [fn |-> "none"]

Init ==
    /\ env \in Envs
    /\ file = Absent
    /\ Boot
    /\ probe = Unprobed

\* the histories of one cycle
CycleHistoryReset ==
    /\ cycleKeys' = {}
    /\ visited' = {}
    /\ fetchFailed' = {}
    /\ sentSrc' = {}
    /\ saves' = 0

\* the histories of one process
ProcessHistoryReset ==
    /\ sends' = NoCounts
    /\ failed' = {}
    /\ seen' = NoCounts
    /\ sentFor' = {}
    /\ CycleHistoryReset

\* line 72: open(..., "w") empties the file before anything is written
OpenForWriting == file' = Truncated

\* lines 72-73: json.dump has written every entry and the file is closed
WriteAll(events) ==
    /\ file' = Json(SaveData(events, clock))
    /\ flushedAt' = [k \in Keys |-> IF k \in events THEN clock ELSE flushedAt[k]]

\* lines 21-44 with load_sent_events, up to the open() of its save_sent_events
Start ==
    /\ pc = "down"
    /\ ~ConfigMissing
    /\ LET r == LoadSentEvents(file, clock) IN
        /\ sent_events' = r.events
        /\ loaded' = r.events
        /\ dropped' = IF r.rewrite THEN FileKeys(file) \ r.events ELSE {}
        /\ covered' = {k \in Keys : flushedAt[k] >= 0 /\ clock - flushedAt[k] < Day}
        /\ IF r.rewrite
           THEN OpenForWriting /\ pc' = "load_save"
           ELSE file' = file /\ pc' = "ready"
    /\ healthy' = Parses(file)
    /\ exit' = "none"
    /\ ProcessHistoryReset
    /\ UNCHANGED <<clock, src, ent, notifications_sent, flushedAt, env, probe>>

\* lines 49 and 65-67: the file exists and open() or read raises
StartReadError ==
    /\ pc = "down"
    /\ ~ConfigMissing
    /\ file.state # "absent"
    /\ sent_events' = {}
    /\ loaded' = {}
    /\ dropped' = {}
    /\ covered' = {k \in Keys : flushedAt[k] >= 0 /\ clock - flushedAt[k] < Day}
    /\ pc' = "ready"
    /\ healthy' = FALSE
    /\ exit' = "none"
    /\ ProcessHistoryReset
    /\ UNCHANGED <<clock, file, src, ent, notifications_sent, flushedAt, env, probe>>

\* lines 26-29 and 285-286: ValueError, main logs it and the process ends
StartFails ==
    /\ pc = "down"
    /\ ConfigMissing
    /\ exit' = "config_error"
    /\ UNCHANGED <<clock, pc, file, sent_events, src, ent, notifications_sent, loaded,
                   dropped, sends, failed, seen, sentFor, covered, cycleKeys, visited,
                   fetchFailed, sentSrc, saves, flushedAt, env, healthy, probe>>

\* line 62: the rewrite of the pruned ledger completes, load returns
LoadSaveWrite ==
    /\ pc = "load_save"
    /\ WriteAll(sent_events)
    /\ pc' = "ready"
    /\ UNCHANGED <<clock, sent_events, src, ent, notifications_sent, loaded, dropped,
                   sends, failed, seen, sentFor, covered, cycleKeys, visited,
                   fetchFailed, sentSrc, saves, exit, env, healthy, probe>>

\* the ledger read and pruned again at the start of every cycle
BeginCycleReloads ==
    /\ pc \in {"ready", "idle", "backoff"}
    /\ pc' = "cycle"
    /\ src' = 1
    /\ ent' = 0
    /\ notifications_sent' = 0
    /\ sent_events' = IF file.state = "json"
                      THEN LoadSentEvents(file, clock).events
                      ELSE sent_events
    /\ CycleHistoryReset
    /\ UNCHANGED <<clock, file, loaded, dropped, sends, failed, seen,
                   sentFor, covered, flushedAt, exit, env, healthy, probe>>

\* lines 266, 194-199: a poll cycle begins
BeginCycle ==
    /\ pc \in {"ready", "idle", "backoff"}
    /\ pc' = "cycle"
    /\ src' = 1
    /\ ent' = 0
    /\ notifications_sent' = 0
    /\ CycleHistoryReset
    /\ UNCHANGED <<clock, file, sent_events, loaded, dropped, sends, failed, seen,
                   sentFor, covered, flushedAt, exit, env, healthy, probe>>

AtSource == pc = "cycle" /\ ent = 0 /\ src \in Sources

\* lines 200-201
SkipBlank ==
    /\ AtSource
    /\ Strip(ical_urls[src]) = <<>>
    /\ src' = src + 1
    /\ UNCHANGED <<clock, pc, file, sent_events, ent, notifications_sent, loaded,
                   dropped, sends, failed, seen, sentFor, covered, cycleKeys,
                   visited, fetchFailed, sentSrc, saves, flushedAt, exit, env, healthy, probe>>

\* lines 204-209: the feed is fetched and parsed
FetchOk ==
    /\ AtSource
    /\ Strip(ical_urls[src]) # <<>>
    /\ visited' = visited \cup {src}
    /\ IF Len(CalendarOf(src).components) = 0
       THEN src' = src + 1 /\ ent' = 0
       ELSE src' = src /\ ent' = 1
    /\ UNCHANGED <<clock, pc, file, sent_events, notifications_sent, loaded, dropped,
                   sends, failed, seen, sentFor, covered, cycleKeys, fetchFailed,
                   sentSrc, saves, flushedAt, exit, env, healthy, probe>>

\* a failed fetch that leaves the loop over the sources
FetchFailAborts ==
    /\ AtSource
    /\ Strip(ical_urls[src]) # <<>>
    /\ visited' = visited \cup {src}
    /\ fetchFailed' = fetchFailed \cup {src}
    /\ src' = Len(ical_urls) + 1
    /\ UNCHANGED <<clock, pc, file, sent_events, ent, notifications_sent, loaded,
                   dropped, sends, failed, seen, sentFor, covered, cycleKeys,
                   sentSrc, saves, flushedAt, exit, env, healthy, probe>>

\* lines 86-90 and 247-250: fetch_calendar raises, the source is given up
FetchFail ==
    /\ AtSource
    /\ Strip(ical_urls[src]) # <<>>
    /\ visited' = visited \cup {src}
    /\ fetchFailed' = fetchFailed \cup {src}
    /\ src' = src + 1
    /\ UNCHANGED <<clock, pc, file, sent_events, ent, notifications_sent, loaded,
                   dropped, sends, failed, seen, sentFor, covered, cycleKeys,
                   sentSrc, saves, flushedAt, exit, env, healthy, probe>>

AtComponent == pc = "cycle" /\ ent >= 1 /\ src \in Sources

\* line 209: the walk moves to the next component, or the loop to the next source
NextComponent ==
    IF ent = Len(CalendarOf(src).components)
    THEN src' = src + 1 /\ ent' = 0
    ELSE src' = src /\ ent' = ent + 1

\* the keyword test of lines 213-215 left out
QualifiesAnyTitle(c, t) == c.name = "VEVENT" /\ IsEventCurrent(c, t)

\* lines 210-222: a VEVENT that is a candidate and current
Qualifies(c, t) == c.name = "VEVENT" /\ IsCandidate(c.summary) /\ IsEventCurrent(c, t)

\* the ledger test of line 226 left out
AlreadySentNever(event_id, events) == FALSE

\* line 226
AlreadySent(event_id, events) == event_id \in events

\* lines 210-228: the component is not an event, not a candidate, not current,
\* or its key is in sent_events
SkipComponent ==
    /\ AtComponent
    /\ LET c == ComponentAt(src, ent)
           k == KeyAt(src, ent) IN
        /\ ~Qualifies(c, clock) \/ AlreadySent(k, sent_events)
        /\ seen' = IF Qualifies(c, clock)
                   THEN [seen EXCEPT ![k] = Min(@ + 1, SeenCap)]
                   ELSE seen
    /\ NextComponent
    /\ UNCHANGED <<clock, pc, file, sent_events, notifications_sent, loaded, dropped,
                   sends, failed, sentFor, covered, cycleKeys, visited,
                   fetchFailed, sentSrc, saves, flushedAt, exit, env, healthy, probe>>

\* the key recorded only when the post succeeded
RecordIfOk(k, ok) ==
    /\ sent_events' = IF ok THEN sent_events \cup {k} ELSE sent_events
    /\ notifications_sent' = IF ok THEN notifications_sent + 1 ELSE notifications_sent

\* lines 242-243, run whether or not send_discord_message succeeded
Record(k, ok) ==
    /\ sent_events' = sent_events \cup {k}
    /\ notifications_sent' = notifications_sent + 1

\* lines 230-245: the notification is posted, with or without success
Dispatch(ok) ==
    /\ AtComponent
    /\ LET c == ComponentAt(src, ent)
           k == KeyAt(src, ent) IN
        /\ Qualifies(c, clock)
        /\ ~AlreadySent(k, sent_events)
        /\ Record(k, ok)
        /\ seen' = [seen EXCEPT ![k] = Min(@ + 1, SeenCap)]
        /\ sends' = [sends EXCEPT ![k] = Min(@ + 1, SeenCap)]
        /\ failed' = IF ok THEN failed ELSE failed \cup {k}
        /\ sentFor' = sentFor \cup {<<src, ent>>}
        /\ cycleKeys' = cycleKeys \cup {k}
        /\ sentSrc' = sentSrc \cup {src}
    /\ NextComponent
    /\ UNCHANGED <<clock, pc, file, loaded, dropped, covered, visited, fetchFailed,
                   saves, flushedAt, exit, env, healthy, probe>>

\* the flush made whether or not the cycle dispatched
EndCycleAlwaysSaves ==
    /\ pc = "cycle"
    /\ src \notin Sources
    /\ OpenForWriting /\ pc' = "flush" /\ saves' = saves + 1
    /\ UNCHANGED <<clock, sent_events, src, ent, notifications_sent, loaded, dropped,
                   sends, failed, seen, sentFor, covered, cycleKeys, visited,
                   fetchFailed, sentSrc, flushedAt, exit, env, healthy, probe>>

\* lines 252-257: every source was handled
EndCycle ==
    /\ pc = "cycle"
    /\ src \notin Sources
    /\ IF notifications_sent > 0
       THEN OpenForWriting /\ pc' = "flush" /\ saves' = saves + 1
       ELSE file' = file /\ pc' = "idle" /\ saves' = saves
    /\ UNCHANGED <<clock, sent_events, src, ent, notifications_sent, loaded, dropped,
                   sends, failed, seen, sentFor, covered, cycleKeys, visited,
                   fetchFailed, sentSrc, flushedAt, exit, env, healthy, probe>>

\* save_sent_events handed the keys of the cycle only
FlushWriteCycleOnly ==
    /\ pc = "flush"
    /\ WriteAll(cycleKeys)
    /\ pc' = "idle"
    /\ UNCHANGED <<clock, sent_events, src, ent, notifications_sent, loaded, dropped,
                   sends, failed, seen, sentFor, covered, cycleKeys, visited,
                   fetchFailed, sentSrc, saves, exit, env, healthy, probe>>

\* line 253: the flush completes, check_autonomie_events returns
FlushWrite ==
    /\ pc = "flush"
    /\ WriteAll(sent_events)
    /\ pc' = "idle"
    /\ UNCHANGED <<clock, sent_events, src, ent, notifications_sent, loaded, dropped,
                   sends, failed, seen, sentFor, covered, cycleKeys, visited,
                   fetchFailed, sentSrc, saves, exit, env, healthy, probe>>

\* lines 72-75: json.dump raises after open() emptied the file (disk full);
\* save_sent_events logs it and returns
SaveFails ==
    /\ pc \in {"load_save", "flush"}
    /\ pc' = IF pc = "flush" THEN "idle" ELSE "ready"
    /\ healthy' = FALSE
    /\ flushedAt' = NeverFlushed
    /\ UNCHANGED <<clock, file, sent_events, src, ent, notifications_sent, loaded,
                   dropped, sends, failed, seen, sentFor, covered, cycleKeys, visited,
                   fetchFailed, sentSrc, saves, exit, env, probe>>

\* the handler of run_continuous letting the exception end the loop
CycleRaisesEndsLoop ==
    /\ pc = "cycle"
    /\ ent = 0
    /\ pc' = "down"
    /\ exit' = "error"
    /\ UNCHANGED <<clock, file, sent_events, src, ent, notifications_sent, loaded,
                   dropped, sends, failed, seen, sentFor, covered, cycleKeys, visited,
                   fetchFailed, sentSrc, saves, flushedAt, env, healthy, probe>>

\* lines 273-276: an Exception leaves check_autonomie_events outside the try of
\* line 203; run_continuous logs it and sleeps BackoffSeconds
CycleRaises ==
    /\ pc = "cycle"
    /\ ent = 0
    /\ pc' = "backoff"
    /\ UNCHANGED <<clock, file, sent_events, src, ent, notifications_sent, loaded,
                   dropped, sends, failed, seen, sentFor, covered, cycleKeys, visited,
                   fetchFailed, sentSrc, saves, flushedAt, exit, env, healthy, probe>>

\* an hour passes while the process sleeps or while there is no process
Tick ==
    /\ pc \in {"down", "idle"}
    /\ clock < MaxClock
    /\ clock' = clock + 1
    /\ UNCHANGED <<pc, file, sent_events, src, ent, notifications_sent, loaded,
                   dropped, sends, failed, seen, sentFor, covered, cycleKeys,
                   visited, fetchFailed, sentSrc, saves, flushedAt, exit, env, healthy, probe>>

\* the process ends where it stands; a file open for writing stays as it is
Exit(how) ==
    /\ pc # "down"
    /\ pc' = "down"
    /\ exit' = how
    /\ sent_events' = {}
    /\ src' = 0
    /\ ent' = 0
    /\ notifications_sent' = 0
    /\ loaded' = {}
    /\ dropped' = {}
    /\ covered' = {}
    /\ ProcessHistoryReset
    /\ flushedAt' = IF pc \in {"load_save", "flush"} THEN NeverFlushed ELSE flushedAt
    /\ healthy' = TRUE
    /\ UNCHANGED <<clock, file, env, probe>>

\* lines 270-272: KeyboardInterrupt is no Exception; nothing below
\* run_continuous catches it, and run_continuous breaks out of its loop
Interrupt == Exit("interrupt")

\* the process is killed or the machine stops
Crash == Exit("crash")

Next ==
    \/ Start
    \/ StartFails
    \/ LoadSaveWrite
    \/ BeginCycle
    \/ SkipBlank
    \/ FetchOk
    \/ FetchFail
    \/ SkipComponent
    \/ \E ok \in BOOLEAN : Dispatch(ok)
    \/ EndCycle
    \/ FlushWrite
    \/ Tick
    \/ Interrupt
    \/ Crash

Spec == Init /\ [][Next]_vars

(***************************************************************************)
(* The same program with the faults of its surroundings: a stored file     *)
(* that is not what save_sent_events wrote, reads and writes that raise.   *)
(* One feed and a blank after the comma.                                   *)
(***************************************************************************)
\* a file some other hand wrote: a timestamp that is no isoformat
NonIsoData ==
    LET key == KeysOf(<<<<"b">>>>)
    IN [k \in {key[<<1, 1>>], key[<<1, 3>>]} |->
           IF k = key[<<1, 3>>] THEN "hier" ELSE IsoFormat(0)]

StoredFiles == {Absent, Truncated, Json(NonIsoData)}

InitFaults ==
    /\ env \in FaultEnvs
    /\ file \in StoredFiles
    /\ Boot
    /\ probe = Unprobed

NextFaults ==
    \/ Next
    \/ StartReadError
    \/ SaveFails

SpecFaults == InitFaults /\ [][NextFaults]_vars

\* the faults, and an Exception that leaves check_autonomie_events
NextLive ==
    \/ NextFaults
    \/ CycleRaises

\* run_continuous goes round its loop when time.sleep returns
SpecLive == InitFaults /\ [][NextLive]_vars /\ WF_vars(BeginCycle)

(***************************************************************************)
(* is_event_current and create_event_id called on their own, on events and *)
(* at instants drawn from bounded sets.                                    *)
(***************************************************************************)
program == <<clock, pc, file, sent_events, src, ent, notifications_sent, loaded,
             dropped, sends, failed, seen, sentFor, covered, cycleKeys, visited,
             fetchFailed, sentSrc, saves, flushedAt, exit, env, healthy>>

\* hours of the days 0..MaxDay at which events start and end
ProbeHours == {h \in 0..((MaxDay + 1) * Day - 1) : h % Day \in {0, Day \div 2, Day - 1}}

\* what dtstart and dtend may hold
ProbeTimes ==
    {None} \cup {Date(d) : d \in 0..MaxDay} \cup {Naive(h) : h \in ProbeHours}
           \cup {Aware(h, off) : h \in ProbeHours, off \in {0, TzOffset + 1}}

ProbeNows == 0..((MaxDay + 1) * Day - 1)

ProbeSummaries == {<<>>, <<"T", "P">>}

\* PYTHONHASHSEED of an interpreter: str hashes differ from process to process
HashSeeds == 0..MaxSeed

\* hash(str(event)) in an interpreter started with the given seed
Hash(event, seed) == seed * (Len(Keyword) + 1) + Len(event.summary)

\* lines 164-166: the key when the construction raised
CreateEventIdExcept(calendar_name, h) == calendar_name \o "_" \o ToString(h)

InitFn ==
    /\ env = Configured
    /\ file = Absent
    /\ Boot
    /\ \/ \E dtstart \in ProbeTimes, dtend \in ProbeTimes, now \in ProbeNows :
             probe = [fn |-> "is_event_current",
                      event |-> Component("VEVENT", Keyword, "u1", dtstart, dtend),
                      calendar_name |-> "L3", now |-> now, seed |-> 0,
                      raises |-> FALSE, result |-> <<>>]
       \/ \E uid \in {"", "u1"}, summary \in ProbeSummaries,
             dtstart \in {None, Date(1), Naive(Day \div 2)},
             name \in {"L3", "Agenda"}, seed \in HashSeeds, raises \in BOOLEAN :
             probe = [fn |-> "create_event_id",
                      event |-> Component("VEVENT", summary, uid, dtstart, None),
                      calendar_name |-> name, now |-> 0, seed |-> seed,
                      raises |-> raises, result |-> <<>>]

\* is_event_current(event) with datetime.now(self.tz) at probe.now
CallIsEventCurrent ==
    /\ probe.fn = "is_event_current"
    /\ probe.result = <<>>
    /\ probe' = [probe EXCEPT !.result = <<IsEventCurrent(probe.event, probe.now)>>]
    /\ UNCHANGED program

\* create_event_id(event, calendar_name), a first and a second time
CallCreateEventId ==
    /\ probe.fn = "create_event_id"
    /\ Len(probe.result) < 2
    /\ LET h == Hash(probe.event, probe.seed)
           key == IF probe.raises
                  THEN CreateEventIdExcept(probe.calendar_name, h)
                  ELSE CreateEventId(probe.event, probe.calendar_name, h)
       IN probe' = [probe EXCEPT !.result = Append(@, key)]
    /\ UNCHANGED program

\* the process is started again: another interpreter, another hash seed
Reexec ==
    /\ probe.fn = "create_event_id"
    /\ Len(probe.result) = 1
    /\ \E seed \in HashSeeds \ {probe.seed} : probe' = [probe EXCEPT !.seed = seed]
    /\ UNCHANGED program

NextFn ==
    \/ CallIsEventCurrent
    \/ CallCreateEventId
    \/ Reexec

SpecFn == InitFn /\ [][NextFn]_vars

TypeOK ==
    /\ clock \in 0..MaxClock
    /\ pc \in {"down", "load_save", "ready", "cycle", "flush", "idle", "backoff"}
    /\ file.state \in {"absent", "json", "truncated"}
    /\ sent_events \subseteq Keys

(***************************************************************************)
(* Properties.                                                             *)
(***************************************************************************)
\* the letters a title may show where the keyword has c
BothCases(c) == {c} \cup {Upper[i] : i \in {j \in 1..Len(Lower) : Lower[j] = c}}

\* the title holds the keyword, whatever the case of its letters
HasKeyword(summary) ==
    \E i \in 0..(Len(summary) - Len(Keyword)) :
        \A j \in 1..Len(Keyword) : summary[i + j] \in BothCases(Keyword[j])

SummaryAt(p) == ComponentAt(p[1], p[2]).summary

\* C1: within one process, a key that was not in the loaded ledger and whose
\* matching, current event the cycles have met (once or several times) has
\* been dispatched exactly once: at the first meeting, and never again.
C1_ExactlyOnce ==
    pc # "down" =>
        \A k \in Keys : (seen[k] >= 1 /\ k \notin loaded) => sends[k] = 1

C1_Witness ==
    /\ pc = "idle"
    /\ \E p \in Entries :
          LET k == KeyAt(p[1], p[2]) IN
          /\ seen[k] >= 2 /\ k \notin loaded /\ sends[k] = 1
          /\ k \notin cycleKeys
          /\ p[1] \in visited \ fetchFailed
          /\ HasKeyword(SummaryAt(p))
          /\ IsEventCurrent(ComponentAt(p[1], p[2]), clock)

\* C2: a key that a completed write put in the file less than 24 hours before
\* the restart is in the set load_sent_events returns, stays in sent_events,
\* and is not dispatched by any cycle of the new process.
C2_NoRedispatchAfterRestart ==
    pc # "down" =>
        \A k \in covered : k \in loaded /\ k \in sent_events /\ sends[k] = 0

C2_Witness ==
    /\ pc = "idle"
    /\ \E k \in covered : seen[k] >= 1 /\ sends[k] = 0

\* C3: every dispatch is for a component whose title holds the keyword, and
\* every key a cycle added to sent_events is the key of such a component.
C3_NoKeywordNoDispatch ==
    /\ \A p \in sentFor : HasKeyword(SummaryAt(p))
    /\ \A k \in sent_events \ loaded :
          \E p \in Entries : KeyAt(p[1], p[2]) = k /\ HasKeyword(SummaryAt(p))

C3_Witness ==
    /\ pc = "cycle"
    /\ \E p \in Entries :
          /\ ComponentAt(p[1], p[2]).name = "VEVENT"
          /\ ~HasKeyword(SummaryAt(p))
          /\ IsEventCurrent(ComponentAt(p[1], p[2]), clock)
          /\ p[1] \in visited \ fetchFailed
          /\ src > p[1]
          /\ p \notin sentFor
          /\ KeyAt(p[1], p[2]) \notin sent_events

\* C4: a key whose post failed is in sent_events, has been dispatched once
\* only, and is in the file once its cycle has ended, every source having been
\* reached; the step of the failed post counts the notification and moves on
\* to the next component.
C4_AtMostOneAttempt ==
    /\ [](\A k \in failed :
             /\ k \in sent_events
             /\ sends[k] = 1
             /\ (pc = "idle" /\ k \in cycleKeys) =>
                    (k \in FileKeys(file) /\ visited = NonBlank))
    /\ [][\A k \in Keys :
             (k \notin failed /\ k \in failed') =>
                 /\ pc' = "cycle"
                 /\ notifications_sent' = notifications_sent + 1
                 /\ <<src', ent'>> =
                        IF ent = Len(CalendarOf(src).components)
                        THEN <<src + 1, 0>> ELSE <<src, ent + 1>>]_vars

C4_Witness ==
    /\ pc = "idle"
    /\ \E k \in failed : seen[k] >= 2 /\ sends[k] = 1 /\ k \in FileKeys(file)

\* C5: no dispatch of a cycle comes from a source whose fetch failed in it;
\* the cycle reaches every configured source all the same, and when it has
\* returned, whatever it dispatched has been flushed to the file, once.
C5_SourceFailureIsolated ==
    /\ sentSrc \cap fetchFailed = {}
    /\ pc \in {"flush", "idle"} => visited = NonBlank
    /\ (pc = "idle" /\ cycleKeys # {}) =>
          /\ saves = 1
          /\ file.state = "json"
          /\ cycleKeys \subseteq FileKeys(file)

C5_Witness ==
    /\ pc = "idle"
    /\ \E i \in fetchFailed : \E j \in sentSrc : i < j
    /\ cycleKeys \subseteq FileKeys(file)

\* C6: when a KeyboardInterrupt ends the process, every key the process has
\* dispatched is in the persisted ledger.
C6_InterruptKeepsDispatchedKeys ==
    [][(pc # "down" /\ pc' = "down" /\ exit' = "interrupt") =>
          \A k \in Keys : sends[k] > 0 => k \in FileKeys(file')]_vars

\* C7: after a crash the file is whole: a complete ledger, the previous or
\* the new one, never an emptied or half-written file.
C7_RewriteAtomic == (pc = "down" /\ exit = "crash") => file.state # "truncated"

\* C8: a load returns every key that a completed save wrote less than
\* 24 hours before.
C8_RoundTrip ==
    [][(pc = "down" /\ pc' # "down") =>
          \A k \in Keys :
              (flushedAt[k] >= 0 /\ clock - flushedAt[k] < Day) => k \in sent_events']_vars

C8_Witness ==
    /\ pc = "ready"
    /\ \E k \in loaded : k \in covered /\ k \in FileKeys(file)

\* C9: load_sent_events returns no key written more than 24 hours before and
\* every key written less than 24 hours before; when it has dropped keys, the
\* file it leaves holds none of them, before any cycle has run.
C9_ExpiryOnLoad ==
    /\ [][(pc = "down" /\ pc' # "down" /\ file.state = "json") =>
             \A k \in FileKeys(file) :
                 /\ clock - flushedAt[k] > Day => k \notin sent_events'
                 /\ clock - flushedAt[k] < Day => k \in sent_events']_vars
    /\ [](pc = "ready" /\ dropped # {} =>
             file.state = "json" /\ FileKeys(file) \cap dropped = {})

C9_Witness ==
    /\ pc = "ready"
    /\ dropped # {}
    /\ \E k \in dropped : clock - flushedAt[k] > Day
    /\ file.state = "json"
    /\ FileKeys(file) \cap dropped = {}

\* C10: a rewrite of the file (a flush, or the rewrite at load) leaves every
\* key it did not just dispatch with the timestamp the file had for it.
C10_FirstTimestampKept ==
    [][\A k \in Keys :
          (/\ pc \in {"flush", "load_save"}
           /\ file'.state = "json"
           /\ k \in FileKeys(file')
           /\ k \notin cycleKeys
           /\ flushedAt[k] >= 0) =>
              FromIso(file'.data[k]) = flushedAt[k]]_vars

\* C11: when ICAL_URL is unset or empty, or DISCORD_WEBHOOK_URL is unset or
\* empty, the constructor raises and the process never leaves the start: it
\* enters no run_continuous and runs no cycle.
C11_FailFastOnMissingConfig ==
    (\/ env.ICAL_URL = Unset
     \/ env.ICAL_URL = Set(<<>>)
     \/ env.DISCORD_WEBHOOK_URL = Unset
     \/ env.DISCORD_WEBHOOK_URL = Set(<<>>)) => pc = "down"

\* C12: run_continuous leaves its loop on an interrupt (or the end of the
\* process) and on nothing else; a cycle that raised is followed, after a
\* backoff shorter than the poll interval, by the start of another cycle
\* unless the process is stopped from outside first.
C12_LoopSurvivesErrors ==
    /\ [](BackoffSeconds < interval_minutes * 60)
    /\ [][(pc # "down" /\ pc' = "down") => exit' \in {"interrupt", "crash"}]_vars
    /\ (pc = "backoff") ~> (pc = "cycle" \/ exit \in {"interrupt", "crash"})

C12_Witness == pc = "backoff" /\ cycleKeys # {} /\ FileKeys(file) = {}

\* what json.load or fromisoformat raises on
Corrupt(f) ==
    \/ f.state = "truncated"
    \/ f.state = "json" /\ \E k \in DOMAIN f.data :
           \A t \in 0..MaxClock : f.data[k] # IsoFormat(t)

\* C13: a process started on a file that is no JSON, or holds a timestamp that
\* is no isoformat, or cannot be read, is constructed all the same, with an
\* empty sent_events, and goes on to its cycles.
C13_CorruptStorageIsEmptyLedger ==
    [][(pc = "down" /\ pc' # "down" /\ (Corrupt(file) \/ ~healthy')) =>
          (sent_events' = {} /\ pc' = "ready" /\ file' = file)]_vars

C13_Witness ==
    /\ pc = "cycle"
    /\ file = Json(NonIsoData)
    /\ loaded = {}
    /\ \E k \in cycleKeys : k \in FileKeys(file) /\ file.data[k] = "hier"

\* C14: two calls of create_event_id with the same event and the same calendar
\* name return the same key, in one process and across a restart, on every
\* branch.
C14_CreateEventIdDeterministic ==
    probe.fn = "create_event_id" =>
        \A i, j \in 1..Len(probe.result) : probe.result[i] = probe.result[j]

\* the hour of the operating zone at which a date-time falls
LocalHour(dt) == IF dt.kind = "aware" THEN dt.t - dt.off + TzOffset ELSE dt.t

\* the first and the last hour of a start or an end, in the operating zone
FirstHour(dt) == IF dt.kind = "date" THEN dt.day * Day ELSE LocalHour(dt)
LastHour(dt) == IF dt.kind = "date" THEN dt.day * Day + (Day - 1) ELSE LocalHour(dt)

Probed(fn) == probe.fn = fn /\ probe.result # <<>>

\* C15: for an event with a start and an explicit end not before it,
\* is_event_current is true exactly when start <= now <= end, the start and
\* the end brought to the operating zone, a date-only start taken at its
\* midnight and a date-only end at the end of its day.
C15_CurrentWithinExplicitEnd ==
    (/\ Probed("is_event_current")
     /\ probe.event.dtstart.kind # "none"
     /\ probe.event.dtend.kind # "none"
     /\ FirstHour(probe.event.dtstart) <= LastHour(probe.event.dtend)) =>
        probe.result[1] = (/\ FirstHour(probe.event.dtstart) <= probe.now
                           /\ probe.now <= LastHour(probe.event.dtend))

\* C16: with no end, a date-time start is current from its hour to one hour
\* later, a date-only start during its own day and on no other day; with no
\* start, the event is never current.
C16_CurrentWithDefaultEnd ==
    Probed("is_event_current") =>
        LET dtstart == probe.event.dtstart
            now == probe.now
        IN /\ dtstart.kind = "none" => probe.result[1] = FALSE
           /\ (dtstart.kind \in {"naive", "aware"} /\ probe.event.dtend.kind = "none") =>
                  probe.result[1] = (/\ LocalHour(dtstart) <= now
                                     /\ now <= LocalHour(dtstart) + OneHour)
           /\ (dtstart.kind = "date" /\ probe.event.dtend.kind = "none") =>
                  probe.result[1] = (now \div Day = dtstart.day)

C16_Witness ==
    /\ Probed("is_event_current")
    /\ probe.event.dtend.kind = "none"
    /\ probe.event.dtstart.kind = "aware"
    /\ probe.now = LocalHour(probe.event.dtstart) + OneHour
    /\ probe.result[1] = TRUE

\* C17: between cycles (after __init__ returned, after check_autonomie_events
\* returned), when the load could read the file and no write has failed, the
\* keys of the file are the keys of sent_events; when every entry is less
\* than 24 hours old, a process started at that point loads that very set.
C17_FileMirrorsLedger ==
    (pc \in {"ready", "idle"} /\ healthy) =>
        /\ FileKeys(file) = sent_events
        /\ (\A k \in FileKeys(file) : clock - FromIso(file.data[k]) < Day) =>
               LoadSentEvents(file, clock).events = sent_events

C17_Witness ==
    /\ pc = "idle"
    /\ healthy
    /\ loaded # {}
    /\ cycleKeys # {}
    /\ sent_events = loaded \cup cycleKeys
    /\ FileKeys(file) = sent_events

\* C18: a cycle calls save_sent_events at most once, after the last source,
\* and it calls it exactly when the cycle dispatched; a step of a cycle that
\* touches the file belongs to a cycle that dispatched and is past its last
\* source, so a cycle without a dispatch leaves the file as it was.
C18_OneFlushPerCycle ==
    /\ [](saves <= 1)
    /\ []((pc = "cycle" /\ saves = 1) => src \notin Sources)
    /\ [](pc \in {"flush", "idle"} => (saves = 1 <=> cycleKeys # {}))
    /\ [][(pc \in {"cycle", "flush"} /\ pc' # "down" /\ file' # file) =>
             (cycleKeys # {} /\ src \notin Sources)]_vars

C18_Witness ==
    /\ pc = "idle"
    /\ saves = 0
    /\ cycleKeys = {}
    /\ sent_events # {}
    /\ file.state = "json"
    /\ \E k \in FileKeys(file) : FromIso(file.data[k]) < clock

\* C19: while a process lives, sent_events loses no key, and no key is
\* dispatched twice: not when it occurs twice in one cycle, not when more
\* than 24 hours have passed since it was recorded.
C19_OncePerKeyPerProcess ==
    /\ [][(pc # "down" /\ pc' # "down") => sent_events \subseteq sent_events']_vars
    /\ [](\A k \in Keys : sends[k] <= 1)

C19_Witness ==
    /\ pc = "cycle"
    /\ src \notin Sources
    /\ cycleKeys = {}
    /\ \E p \in Entries, q \in Entries :
          LET k == KeyAt(p[1], p[2]) IN
          /\ p # q
          /\ KeyAt(q[1], q[2]) = k
          /\ p[1] \in visited \ fetchFailed
          /\ q[1] \in visited \ fetchFailed
          /\ IsCandidate(SummaryAt(p)) /\ IsCandidate(SummaryAt(q))
          /\ IsEventCurrent(ComponentAt(p[1], p[2]), clock)
          /\ IsEventCurrent(ComponentAt(q[1], q[2]), clock)
          /\ k \notin loaded
          /\ sends[k] = 1
          /\ flushedAt[k] >= 0
          /\ clock - flushedAt[k] > Day

\* the keys create_event_id builds from a uid or from a title and a start
UidKey(name, c) == name \o "_" \o c.uid
StartKey(name, c) == name \o "_" \o Str(c.summary) \o "_" \o StrDt(c.dtstart)

NoStart(p) == ComponentAt(p[1], p[2]).dtstart.kind = "none"

\* C20: no component without dtstart is dispatched or recorded; every key a
\* cycle added to sent_events is {calendar_name}_{uid} or
\* {calendar_name}_{summary}_{start} of a component with a start, and the key
\* of a component with neither uid nor dtstart is never in sent_events.
C20_NoStartNeverRecorded ==
    /\ \A p \in sentFor : ~NoStart(p)
    /\ \A k \in sent_events \ loaded :
          \E p \in Entries :
              LET c == ComponentAt(p[1], p[2])
                  name == GetCalendarName(CalendarOf(p[1]))
              IN /\ ~NoStart(p)
                 /\ \/ c.uid # "" /\ k = UidKey(name, c)
                    \/ c.uid = "" /\ k = StartKey(name, c)
    /\ \A p \in Entries :
          (NoStart(p) /\ ComponentAt(p[1], p[2]).uid = "") =>
              KeyAt(p[1], p[2]) \notin sent_events

C20_Witness ==
    /\ pc = "idle"
    /\ \E p \in Entries :
          /\ NoStart(p)
          /\ ComponentAt(p[1], p[2]).name = "VEVENT"
          /\ ComponentAt(p[1], p[2]).uid = ""
          /\ HasKeyword(SummaryAt(p))
          /\ p[1] \in visited \ fetchFailed
          /\ p[1] \in sentSrc
          /\ KeyAt(p[1], p[2]) \notin sent_events

====
